---- MODULE Spec2Model ----
(***************************************************************************)
(* Model of MQTTClient (src/src/media/MediaUploader.ts, lines 239-1090):   *)
(* the connection state machine, its timers, the outbound queue and the    *)
(* pending-ack map, driven by the events of the WebSocket transports it    *)
(* opens.  Every transport the client ever opened keeps the handlers that  *)
(* connect() attached to it (lines 306-315), so events of a transport that *)
(* is no longer this.ws still run handleOpen/handleMessage/handleClose.    *)
(*                                                                         *)
(* Transport (the ws library, imported at line 224):                       *)
(*   - send() throws while readyState is CONNECTING, is silently discarded *)
(*     while CLOSING/CLOSED, and is delivered while OPEN;                  *)
(*   - close() on an OPEN transport moves it to CLOSING; inbound frames    *)
(*     are still delivered until the close event;                          *)
(*   - an error event moves the transport to CLOSING (no more frames) and  *)
(*     is followed by the close event.                                     *)
(* Broker: answers the CONNECT it received on a transport with at most one *)
(* CONNACK on that transport, and may close any transport at any time.     *)
(* An 'error' listener is attached to the client for its whole life, as    *)
(* the facade does (src/src/core/PanindiganFCA.ts line 129).               *)
(***************************************************************************)
EXTENDS Integers, Sequences, FiniteSets, TLC

\* ---- bounds of the model ----
MaxSocks == 3              \* transports opened in a behaviour of SpecConn
MaxSocksFull == 2          \* transports opened in a behaviour of Spec
MaxPublish == 2            \* publish() calls in a behaviour
MaxUserSubs == 1           \* subscribe() calls in a behaviour
MaxDelayAttempts == 60     \* largest counter value scheduleReconnect is applied to in SpecDelay
MaxSmallLength == 130      \* SpecCodec encodes every remaining length up to this one
MaxPayload == 16400        \* longest payload of a PUBLISH built in SpecCodec
LargePayload == 120        \* an inbound payload of this length: two-byte remaining length
maxReconnectAttempts == 2  \* this.maxReconnectAttempts, reduced (line 246 sets 10)

\* ---- program constants ----
PacketIdModulus == 65536
NumTopics == 12
reconnectDelay == 5000     \* this.reconnectDelay = MQTT_DEFAULT_OPTIONS.reconnectPeriod
MaxReconnectDelay == 30000 \* the cap of scheduleReconnect

Socks == 1..MaxSocks
ReturnCodes == 0..5
QosLevels == {0, 1}

VARIABLES
  connected,          \* this.connected
  connecting,         \* this.connecting
  ws,                 \* this.ws: a transport of Socks, or 0 for null
  sock,               \* readyState of every transport ever opened
  handshake,          \* the broker's side of every live transport: 0 no CONNECT received,
                      \* 1 CONNECT received, 2 CONNACK sent (0 again once the transport is dead)
  attempt,            \* the connect() attempts (named by their transport) whose promise of
                      \* lines 318-368 is unsettled: `resolved` false, connect timeout pending
  reconnectAttempts,  \* this.reconnectAttempts
  reconnectTimer,     \* this.reconnectTimer is set (the timeout is pending)
  reconnectActive,    \* number of setTimeout timers of scheduleReconnect that are still pending
  keepAliveTimer,     \* this.keepAliveTimer is set
  keepAliveActive,    \* number of setInterval timers of startKeepAlive that are still active
  lastPacketId,       \* this.lastPacketId
  pendingAcks,        \* this.pendingAcks: one [pid, m] per key pid, m the publish whose
                      \* callback the key holds
  ackTimers,          \* the [pid, m] of every publish m whose 30 s timeout is pending
  messageQueue,       \* this.messageQueue
  pubSeq,             \* number of publish() calls made so far (names the messages)
  userSubs,           \* number of successful subscribe() calls made by the caller
  closedByUser,       \* disconnect() has returned and the caller has not called connect() since
  lastOp,             \* the operation or event of the last step and its result
  trace,              \* what the last step did, in order: frames sent, events emitted
  facadeConnected,    \* PanindiganFCA.connected
  mqttClient,         \* PanindiganFCA.mqttClient: 1 when the facade holds the client, 0 for null
  clientListeners     \* the facade has constructed the client and registered its listeners on it

progVars == <<connected, connecting, ws, sock, handshake, attempt, reconnectAttempts,
              reconnectTimer, reconnectActive, keepAliveTimer, keepAliveActive, lastPacketId,
              pendingAcks, ackTimers, messageQueue>>
vars == <<connected, connecting, ws, sock, handshake, attempt, reconnectAttempts,
          reconnectTimer, reconnectActive, keepAliveTimer, keepAliveActive, lastPacketId,
          pendingAcks, ackTimers, messageQueue, pubSeq, userSubs, closedByUser,
          lastOp, trace, facadeConnected, mqttClient, clientListeners>>

\* one entry of trace
\* k: "send" (delivered), "drop" (discarded by a closing transport), "throw" (send or
\* guard threw), "null" (this.ws?.send with this.ws null), "emit", "open", "timer"
\* txt: the message of the Error an 'error' event carries ("" elsewhere)
Entry(k, s, what, m, pid, q) ==
  [k |-> k, sock |-> s, what |-> what, m |-> m, pid |-> pid, q |-> q, txt |-> ""]
Emit(what, code) == Entry("emit", 0, what, code, 0, 0)
EmitError(code, txt) == [Emit("error", code) EXCEPT !.txt = txt]

\* ---- the listeners PanindiganFCA.connect registers on its client ----
\* 'connect' sets the facade's flag (PanindiganFCA.ts lines 114-118) and 'disconnect'
\* clears it (lines 120-123); emit() runs them inside the step that emits. The flag
\* after the emits of tr, in order, when it was flag before.
IsFlagEmit(e) == e.k = "emit" /\ e.what \in {"connect", "disconnect"}
OnEmits(flag, tr) ==
  LET sel == SelectSeq(tr, IsFlagEmit)
  IN IF sel = <<>> THEN flag ELSE sel[Len(sel)].what = "connect"
\* what a step of the client does to the facade: nothing but run its listeners
Listeners ==
  /\ facadeConnected' = IF clientListeners THEN OnEmits(facadeConnected, trace')
                        ELSE facadeConnected
  /\ UNCHANGED <<mqttClient, clientListeners>>

\* a byte or field read past the end of a frame: JavaScript's undefined
Undefined == -1

\* q: the outbound queue as the step found it (recorded for CONNACK steps only)
OpQ(op, res, arg, q) == [op |-> op, res |-> res, arg |-> arg, q |-> q]
Op(op, res, arg) == OpQ(op, res, arg, <<>>)

\* number of transports opened so far
NumSocks == Cardinality({s \in Socks : sock[s] # "none"})

\* ws.send(packet) on transport t with readyStates st: what the ws library does
WsSend(st, t) ==
  IF t = 0 THEN "null"
  ELSE IF st[t] = "connecting" THEN "throw"
  ELSE IF st[t] = "open" THEN "send"
  ELSE "drop"

\* getNextPacketId
getNextPacketId(last) == (last + 1) % PacketIdModulus

Init ==
  /\ connected = FALSE
  /\ connecting = FALSE
  /\ ws = 0
  /\ sock = [s \in Socks |-> "none"]
  /\ handshake = [s \in Socks |-> 0]
  /\ attempt = {}
  /\ reconnectAttempts = 0
  /\ reconnectTimer = FALSE
  /\ reconnectActive = 0
  /\ keepAliveTimer = FALSE
  /\ keepAliveActive = 0
  /\ lastPacketId = 0
  /\ pendingAcks = {}
  /\ ackTimers = {}
  /\ messageQueue = <<>>
  /\ pubSeq = 0
  /\ userSubs = 0
  /\ closedByUser = FALSE
  /\ lastOp = Op("init", "ok", 0)
  /\ trace = <<>>
  /\ facadeConnected = FALSE
  /\ mqttClient = 0
  /\ clientListeners = FALSE

\* ---- the promise of one connect() attempt (lines 318-368) ----
\* emit('connect') / emit('error') run onConnect / onError of every attempt whose
\* `resolved` flag is still false; `by` is the transport whose event settled it
\* the trace records one "settle" entry per attempt settled: sock is the attempt,
\* what the outcome, m the transport whose event settled it
Settled(a, outcome, by) == Entry("settle", a, outcome, by, 0, 0)
RECURSIVE SettleAll(_, _, _)
SettleAll(att, outcome, by) ==
  IF att = {} THEN <<>>
  ELSE LET a == CHOOSE x \in att : \A y \in att : x <= y
       IN <<Settled(a, outcome, by)>> \o SettleAll(att \ {a}, outcome, by)

\* ---- guards ----
\* connect, line 270
ConnectIsNoop_OnlyConnected == connected
ConnectIsNoop_OnlyConnecting == connecting
ConnectIsNoop == connected \/ connecting
\* handleClose, line 500
MayReconnect_Inclusive(n) == n <= maxReconnectAttempts
MayReconnect_OffByOne(n) == n + 1 < maxReconnectAttempts
MayReconnect(n) == n < maxReconnectAttempts
\* subscribe, line 408
SubscribeRefused_NoTransport(conn, w) == w = 0
SubscribeRefused(conn, w) == ~conn \/ w = 0
\* publish, line 430
PublishQueues(conn, w) == ~conn \/ w = 0

\* ---- subscribe (lines 407-417) ----
subscribe(st, w, conn, last, topic) ==
  IF SubscribeRefused(conn, w)
  THEN [res |-> "error", last |-> last, tr |-> <<>>]
  ELSE LET pid == getNextPacketId(last)
           r == WsSend(st, w)
       IN [res |-> IF r = "throw" THEN "error" ELSE "ok",
           last |-> pid,
           tr |-> <<Entry(r, w, "SUBSCRIBE", topic, pid, 1)>>]

\* ---- subscribeToTopics (lines 690-717): one subscribe per topic, each in its own try/catch ----
RECURSIVE subscribeToTopics(_, _, _, _, _, _)
subscribeToTopics(st, w, conn, last, topic, tr) ==
  IF topic > NumTopics THEN [last |-> last, tr |-> tr]
  ELSE LET r == subscribe(st, w, conn, last, topic)
       IN subscribeToTopics(st, w, conn, r.last, topic + 1,
            tr \o (IF r.res = "error" /\ r.tr = <<>>
                   THEN <<Entry("throw", w, "SUBSCRIBE", topic, 0, 1)>>
                   ELSE r.tr))

\* Map.set and Map.delete on this.pendingAcks
MapDelete_Keeps(acks, pid) == acks
MapDelete(acks, pid) == {x \in acks : x.pid # pid}
MapSet(acks, e) == MapDelete(acks, e.pid) \cup {e}
PendingIds(acks) == {x.pid : x \in acks}

\* ---- sendPublish (lines 647-667) ----
sendPublish(st, w, last, acks, timers, msg) ==
  LET pid == IF msg.qos > 0 THEN getNextPacketId(last) ELSE 0
      newLast == IF msg.qos > 0 THEN pid ELSE last
      r == WsSend(st, w)
      tracked == msg.qos > 0 /\ pid # 0
      e == [pid |-> pid, m |-> msg.id]
  IN [last |-> newLast,
      acks |-> IF r # "throw" /\ tracked THEN MapSet(acks, e) ELSE acks,
      timers |-> IF r # "throw" /\ tracked THEN timers \cup {e} ELSE timers,
      tr |-> <<Entry(r, w, "PUBLISH", msg.id, pid, msg.qos)>>,
      thrown |-> r = "throw"]

\* ---- processMessageQueue (lines 722-729) ----
RECURSIVE processMessageQueue(_, _, _, _, _, _, _, _)
processMessageQueue(st, w, conn, q, last, acks, timers, tr) ==
  IF q = <<>> \/ ~conn
  THEN [queue |-> q, last |-> last, acks |-> acks, timers |-> timers, tr |-> tr,
        thrown |-> FALSE]
  ELSE LET r == sendPublish(st, w, last, acks, timers, Head(q))
       IN IF r.thrown
          THEN [queue |-> Tail(q), last |-> r.last, acks |-> r.acks,
                timers |-> r.timers, tr |-> tr \o r.tr, thrown |-> TRUE]
          ELSE processMessageQueue(st, w, conn, Tail(q), r.last, r.acks, r.timers,
                                   tr \o r.tr)

Min(a, b) == IF a <= b THEN a ELSE b

\* the delay of the reconnect timer armed with the counter at n (line 761)
ReconnectDelayOf_Uncapped(n) == reconnectDelay * n
ReconnectDelayOf(n) == Min(reconnectDelay * n, MaxReconnectDelay)

\* ---- scheduleReconnect (lines 755-773) ----
\* the "timer" entry records the counter after the increment (m) and the delay (pid)
scheduleReconnect_NoGuard(timer, n) ==
  [timer |-> TRUE, n |-> n + 1,
   tr |-> <<Entry("timer", 0, "reconnect", n + 1, ReconnectDelayOf(n + 1), 0)>>]
scheduleReconnect(timer, n) ==
  IF timer THEN [timer |-> timer, n |-> n, tr |-> <<>>]
  ELSE [timer |-> TRUE, n |-> n + 1,
        tr |-> <<Entry("timer", 0, "reconnect", n + 1, ReconnectDelayOf(n + 1), 0)>>]

\* the timeouts a call of scheduleReconnect started (line 764), from its trace
IsReconnectTimer(e) == e.k = "timer" /\ e.what = "reconnect"
Armed(tr) == Len(SelectSeq(tr, IsReconnectTimer))

\* ---- connect (lines 269-380), up to the await of line 318 ----
ConnectBody ==
  IF ConnectIsNoop
  THEN /\ UNCHANGED <<connected, connecting, ws, sock, attempt>>
       /\ trace' = <<>>
  ELSE LET s == NumSocks + 1
       IN /\ connecting' = TRUE
          /\ connected' = connected
          /\ ws' = s
          /\ sock' = [sock EXCEPT ![s] = "connecting"]
          /\ attempt' = attempt \cup {s}
          /\ trace' = <<Entry("open", s, "WebSocket", 0, 0, 0),
                        Entry("timer", s, "connectTimeout", 0, 0, 0)>>

\* MQTTClient.connect(); limit bounds the transports of a behaviour
ClientConnect(limit) ==
  /\ ConnectIsNoop \/ NumSocks < limit
  /\ ConnectBody
  /\ closedByUser' = FALSE
  /\ lastOp' = Op("connect", IF ConnectIsNoop THEN "noop" ELSE "started", 0)
  /\ UNCHANGED <<handshake, reconnectAttempts, reconnectTimer, reconnectActive, keepAliveTimer,
                 keepAliveActive, lastPacketId, pendingAcks, ackTimers, messageQueue,
                 pubSeq, userSubs>>

\* the caller invokes connect() on the client
Connect(limit) ==
  /\ ClientConnect(limit)
  /\ Listeners

\* the reconnect timer fires (lines 765-772)
ReconnectFire(limit) ==
  /\ reconnectActive > 0
  /\ ConnectIsNoop \/ NumSocks < limit
  /\ reconnectActive' = reconnectActive - 1
  /\ reconnectTimer' = FALSE
  /\ ConnectBody
  /\ lastOp' = Op("reconnectFire", IF ConnectIsNoop THEN "noop" ELSE "started", 0)
  /\ UNCHANGED <<handshake, reconnectAttempts, keepAliveTimer, keepAliveActive,
                 lastPacketId, pendingAcks, ackTimers, messageQueue, pubSeq, userSubs,
                 closedByUser>>
  /\ Listeners

\* the connect timeout of attempt a fires (lines 321-348), then the catch of lines 370-379
ConnectTimeout(a) ==
  /\ a \in attempt
  /\ attempt' = attempt \ {a}
  /\ connecting' = FALSE
  /\ lastOp' = Op("connectTimeout", "rejected", a)
  /\ trace' = <<Settled(a, "timeout", a)>>
  /\ UNCHANGED <<connected, ws, sock, handshake, reconnectAttempts, reconnectTimer, reconnectActive,
                 keepAliveTimer, keepAliveActive, lastPacketId, pendingAcks, ackTimers,
                 messageQueue, pubSeq, userSubs, closedByUser>>
  /\ Listeners

\* emit('error') from an event of transport s: onError of every unresolved attempt
\* rejects, and the catch of lines 370-379 clears connecting
ErrorEmitted(s) ==
  /\ attempt' = {}
  /\ connecting' = IF attempt # {} THEN FALSE ELSE connecting

\* transport s opens: handleOpen -> sendConnect (lines 449-454, 607-633)
SockOpen(s) ==
  /\ sock[s] = "connecting"
  /\ sock' = [sock EXCEPT ![s] = "open"]
  /\ LET r == WsSend(sock', ws)
     IN /\ handshake' = IF r = "send" /\ handshake[ws] = 0
                        THEN [handshake EXCEPT ![ws] = 1] ELSE handshake
        /\ IF r = "throw"
           THEN /\ ErrorEmitted(s)
                /\ trace' = <<Entry("throw", ws, "CONNECT", 0, 0, 0), Emit("error", 0)>>
                              \o SettleAll(attempt, "error", s)
           ELSE /\ UNCHANGED <<attempt, connecting>>
                /\ trace' = <<Entry(r, ws, "CONNECT", 0, 0, 0)>>
        /\ lastOp' = Op("open", r, s)
  /\ UNCHANGED <<connected, ws, reconnectAttempts, reconnectTimer, reconnectActive, keepAliveTimer,
                 keepAliveActive, lastPacketId, pendingAcks, ackTimers, messageQueue,
                 pubSeq, userSubs, closedByUser>>
  /\ Listeners

\* transport s reports an error: lines 309-315 -> handleError (lines 508-511)
SockError(s) ==
  /\ sock[s] \in {"connecting", "open"}
  /\ sock' = [sock EXCEPT ![s] = "errored"]
  /\ handshake' = [handshake EXCEPT ![s] = 0]
  /\ ErrorEmitted(s)
  /\ trace' = <<Emit("error", 0)>> \o SettleAll(attempt, "error", s)
  /\ lastOp' = Op("error", "ok", s)
  /\ UNCHANGED <<connected, ws, reconnectAttempts, reconnectTimer, reconnectActive,
                 keepAliveTimer, keepAliveActive, lastPacketId, pendingAcks, ackTimers,
                 messageQueue, pubSeq, userSubs, closedByUser>>
  /\ Listeners

\* transport s closes: handleClose (lines 491-503)
SockClose(s) ==
  /\ sock[s] \in {"open", "closing", "errored"}
  /\ sock' = [sock EXCEPT ![s] = "closed"]
  /\ connected' = FALSE
  /\ connecting' = FALSE
  /\ LET r == IF MayReconnect(reconnectAttempts)
              THEN scheduleReconnect(reconnectTimer, reconnectAttempts)
              ELSE [timer |-> reconnectTimer, n |-> reconnectAttempts, tr |-> <<>>]
     IN /\ reconnectTimer' = r.timer
        /\ reconnectActive' = reconnectActive + Armed(r.tr)
        /\ reconnectAttempts' = r.n
        /\ trace' = <<Emit("disconnect", 0)>> \o r.tr
  /\ handshake' = [handshake EXCEPT ![s] = 0]
  /\ lastOp' = Op("close", "ok", s)
  /\ UNCHANGED <<ws, attempt, keepAliveTimer, keepAliveActive, lastPacketId,
                 pendingAcks, ackTimers, messageQueue, pubSeq, userSubs, closedByUser>>
  /\ Listeners

\* the message of the Error of a refused CONNACK (lines 541-549)
RefusalReason_AuthAsIdentifier(rc) ==
  CASE rc = 1 -> "Connection Refused - Unacceptable protocol version"
    [] rc = 2 -> "Connection Refused - Identifier rejected"
    [] rc = 3 -> "Connection Refused - Server unavailable"
    [] rc = 4 -> "Connection Refused - Bad user name or password"
    [] rc = 5 -> "Connection Refused - Identifier rejected"
    [] rc = Undefined -> "Connection refused with code undefined"
    [] OTHER -> "Connection refused with code " \o ToString(rc)
RefusalReason(rc) ==
  CASE rc = 1 -> "Connection Refused - Unacceptable protocol version"
    [] rc = 2 -> "Connection Refused - Identifier rejected"
    [] rc = 3 -> "Connection Refused - Server unavailable"
    [] rc = 4 -> "Connection Refused - Bad user name or password"
    [] rc = 5 -> "Connection Refused - Not authorized (bad cookies)"
    [] rc = Undefined -> "Connection refused with code undefined"
    [] OTHER -> "Connection refused with code " \o ToString(rc)

\* ---- handleConnAck (lines 516-561), reached from handleMessage (lines 459-486) ----
\* whose try/catch swallows anything thrown by the handler
HandleConnAck(s, rc) ==
  IF rc = 0
  THEN LET subs == subscribeToTopics(sock, ws, TRUE, lastPacketId, 1, <<>>)
           fl == processMessageQueue(sock, ws, TRUE, messageQueue, subs.last,
                                     pendingAcks, ackTimers, <<>>)
       IN /\ connected' = TRUE
          /\ reconnectAttempts' = 0
          /\ keepAliveActive' = keepAliveActive + 1
          /\ keepAliveTimer' = TRUE
          /\ lastPacketId' = fl.last
          /\ pendingAcks' = fl.acks
          /\ ackTimers' = fl.timers
          /\ messageQueue' = fl.queue
          /\ IF fl.thrown
             THEN /\ attempt' = attempt
                  /\ connecting' = FALSE
                  /\ trace' = <<Entry("timer", 0, "keepAlive", 0, 0, 0)>> \o subs.tr \o fl.tr
             ELSE /\ attempt' = {}
                  /\ connecting' = FALSE
                  /\ trace' = <<Entry("timer", 0, "keepAlive", 0, 0, 0)>> \o subs.tr
                                \o fl.tr \o <<Emit("connect", 0)>>
                                \o SettleAll(attempt, "connack", s)
          /\ lastOp' = OpQ("connack", IF fl.thrown THEN "error" ELSE "ok", s, messageQueue)
  ELSE /\ attempt' = {}
       /\ connecting' = FALSE
       /\ trace' = <<EmitError(rc, RefusalReason(rc))>> \o SettleAll(attempt, "refused", s)
       /\ lastOp' = OpQ("connack", "refused", s, messageQueue)
       /\ UNCHANGED <<connected, reconnectAttempts, keepAliveActive, keepAliveTimer,
                      lastPacketId, pendingAcks, ackTimers, messageQueue>>

\* the broker's CONNACK arrives on transport s
ConnAckIn(s, rc) ==
  /\ sock[s] \in {"open", "closing"}
  /\ handshake[s] = 1
  /\ handshake' = [handshake EXCEPT ![s] = 2]
  /\ HandleConnAck(s, rc)
  /\ UNCHANGED <<ws, sock, reconnectTimer, reconnectActive, pubSeq, userSubs, closedByUser>>
  /\ Listeners

\* ---- handlePubAck (lines 582-588): the callback of line 661 clears the timeout of
\* its publish and resolves it; "ack" entries of the trace name the publish completed
HandlePubAck(id) ==
  LET found == {x \in pendingAcks : x.pid = id}
  IN /\ pendingAcks' = MapDelete(pendingAcks, id)
     /\ ackTimers' = ackTimers \ found
     /\ lastOp' = Op("puback", IF found = {} THEN "none" ELSE "ok", id)
     /\ trace' = IF found = {} THEN <<>>
                 ELSE LET x == CHOOSE y \in found : TRUE
                      IN <<Entry("ack", 0, "resolved", x.m, x.pid, 0)>>

\* the PUBACKs a broker sends: for a packet id that awaits one, or once more for the
\* id of the PUBACK or of the publish timeout that was handled last
AckableIds ==
  PendingIds(pendingAcks)
    \cup (IF lastOp.op \in {"puback", "ackTimeout"} THEN {lastOp.arg} ELSE {})

\* a PUBACK arrives on transport s
PubAckIn(s, id) ==
  /\ sock[s] \in {"open", "closing"}
  /\ id \in AckableIds
  /\ HandlePubAck(id)
  /\ UNCHANGED <<connected, connecting, ws, sock, handshake, attempt, reconnectAttempts,
                 reconnectTimer, reconnectActive, keepAliveTimer, keepAliveActive, lastPacketId,
                 messageQueue, pubSeq, userSubs, closedByUser>>
  /\ Listeners

\* ---- inbound frames as bytes: parsePacket (lines 852-884) ----
\* data[i], 0-based; Undefined past the end
ByteAt(data, i) == IF i < Len(data) THEN data[i + 1] ELSE Undefined
\* data.readUInt16BE(off) throws a RangeError unless off + 2 <= data.length
CanReadUInt16(data, off) == off + 2 <= Len(data)
ReadUInt16BE(data, off) == data[off + 1] * 256 + data[off + 2]
\* data.slice(from, to) and data.toString('utf8', from, to): clamped to the buffer;
\* a topic is kept as its bytes
Slice(data, from, to) ==
  IF from >= Min(to, Len(data)) THEN <<>> ELSE SubSeq(data, from + 1, Min(to, Len(data)))

\* (data[0] >> 4) & 0x0F, and the packetTypes table
PacketTypeOf(data) ==
  IF ByteAt(data, 0) = Undefined THEN 0 ELSE (ByteAt(data, 0) \div 16) % 16
PacketTypeName(n) ==
  CASE n = 1 -> "CONNECT" [] n = 2 -> "CONNACK" [] n = 3 -> "PUBLISH"
    [] n = 4 -> "PUBACK" [] n = 5 -> "PUBREC" [] n = 6 -> "PUBREL"
    [] n = 7 -> "PUBCOMP" [] n = 8 -> "SUBSCRIBE" [] n = 9 -> "SUBACK"
    [] n = 12 -> "PINGREQ" [] n = 13 -> "PINGRESP" [] n = 14 -> "DISCONNECT"
    [] OTHER -> "UNKNOWN"

\* what parsePacket returns, or threw when it throws
Parsed(type) ==
  [type |-> type, threw |-> FALSE, returnCode |-> Undefined, packetId |-> Undefined,
   qos |-> 0, topic |-> <<>>, payload |-> <<>>]
Threw(type) == [Parsed(type) EXCEPT !.threw = TRUE]

\* the do-while of lines 897-901, started at offset: the remainingLength it computes
\* and the offset it ends with (undefined & 127 and undefined & 128 are 0)
RECURSIVE RemainingLengthLoop(_, _, _, _)
RemainingLengthLoop(data, offset, multiplier, value) ==
  LET digit == ByteAt(data, offset)
      v == value + (IF digit = Undefined THEN 0 ELSE digit % 128) * multiplier
  IN IF digit # Undefined /\ digit >= 128
     THEN RemainingLengthLoop(data, offset + 1, multiplier * 128, v)
     ELSE [value |-> v, offset |-> offset + 1]
SkipRemainingLength(data, offset) == RemainingLengthLoop(data, offset, 1, 0).offset

\* `let offset = 2` (line 891): where parsePublishPacket starts the loop
LengthOffset == 2

\* ---- encodeRemainingLength (lines 979-993) ----
RECURSIVE encodeRemainingLength(_)
encodeRemainingLength(num) ==
  IF num \div 128 > 0
  THEN <<(num % 128) + 128>> \o encodeRemainingLength(num \div 128)
  ELSE <<num % 128>>

\* writeUInt16BE
UInt16BE(n) == <<(n \div 256) % 256, n % 256>>

\* ---- buildPublishPacket (lines 1025-1046); a message is [topic, payload, qos, retain],
\* topic and payload as bytes ----
buildPublishPacket(message, packetId) ==
  LET variableHeader ==
        UInt16BE(Len(message.topic)) \o message.topic
          \o (IF message.qos > 0 /\ packetId # 0 THEN UInt16BE(packetId) ELSE <<>>)
      remainingLength == Len(variableHeader) + Len(message.payload)
      fixedHeaderByte == 48 + message.qos * 2 + (IF message.retain THEN 1 ELSE 0)
  IN <<fixedHeaderByte>> \o encodeRemainingLength(remainingLength)
       \o variableHeader \o message.payload

\* parsePublishPacket (lines 889-922)
parsePublishPacket(data) ==
  LET qos == (ByteAt(data, 0) \div 2) % 4
      o1 == SkipRemainingLength(data, LengthOffset)
  IN IF ~CanReadUInt16(data, o1) THEN Threw("PUBLISH")
     ELSE LET topicLength == ReadUInt16BE(data, o1)
              o2 == o1 + 2
              topic == Slice(data, o2, o2 + topicLength)
              o3 == o2 + topicLength
          IN IF qos > 0 /\ ~CanReadUInt16(data, o3) THEN Threw("PUBLISH")
             ELSE [Parsed("PUBLISH") EXCEPT
                     !.qos = qos,
                     !.topic = topic,
                     !.packetId = IF qos > 0 THEN ReadUInt16BE(data, o3) ELSE Undefined,
                     !.payload = Slice(data, IF qos > 0 THEN o3 + 2 ELSE o3, Len(data))]

parsePacket(data) ==
  LET type == PacketTypeName(PacketTypeOf(data))
  IN CASE type = "CONNACK" -> [Parsed(type) EXCEPT !.returnCode = ByteAt(data, 3)]
       [] type = "PUBLISH" -> parsePublishPacket(data)
       [] type \in {"PUBACK", "SUBACK"} ->
            IF CanReadUInt16(data, 2)
            THEN [Parsed(type) EXCEPT !.packetId = ReadUInt16BE(data, 2)]
            ELSE Threw(type)
       [] OTHER -> Parsed(type)

(***************************************************************************)
(* EventParser (src/src/users/UserManager.ts, lines 423-923).              *)
(* A JSON value is a record tagged by t; Undef is JavaScript's undefined   *)
(* (a missing property).  Topics are kept as their bytes.                  *)
(***************************************************************************)
JUndef == [t |-> "undefined"]
JNull == [t |-> "null"]
JStr(x) == [t |-> "string", s |-> x]
JNum(n) == [t |-> "number", n |-> n]
JArr(a) == [t |-> "array", a |-> a]
JObj(f) == [t |-> "object", f |-> f]
\* a payload that JSON.parse rejects
NotJson == [t |-> "notjson"]

\* reading a property of null or undefined throws a TypeError
Nullish(v) == v.t \in {"undefined", "null"}
\* v[k] for a v that is not nullish
Get(v, k) == IF v.t = "object" /\ k \in DOMAIN v.f THEN v.f[k] ELSE JUndef
\* the truthiness of `if (v)`, `!v`, `v || d`
Truthy(v) ==
  CASE v.t \in {"undefined", "null"} -> FALSE
    [] v.t = "string" -> v.s # ""
    [] v.t = "number" -> v.n # 0
    [] OTHER -> TRUE

\* an event (type, threadId and isGroup of it; timestamps are left out), or None
\* for null
Event(type, threadId, isGroup) == [type |-> type, threadId |-> threadId, isGroup |-> isGroup]
None == Event("none", JUndef, FALSE)
\* what a parser did: returned an event or null, or threw
Ret(e) == [threw |-> FALSE, event |-> e]
Thrown == [threw |-> TRUE, event |-> None]

\* extractThreadId (lines 597-613); JNull for null
extractThreadId_OtherFirst(threadKey) ==
  IF ~Truthy(threadKey) THEN JNull
  ELSE IF Truthy(Get(threadKey, "otherUserFbId")) THEN Get(threadKey, "otherUserFbId")
  ELSE IF Truthy(Get(threadKey, "threadFbId")) THEN Get(threadKey, "threadFbId")
  ELSE JNull
extractThreadId(threadKey) ==
  IF ~Truthy(threadKey) THEN JNull
  ELSE IF Truthy(Get(threadKey, "threadFbId")) THEN Get(threadKey, "threadFbId")
  ELSE IF Truthy(Get(threadKey, "otherUserFbId")) THEN Get(threadKey, "otherUserFbId")
  ELSE JNull

\* !!threadKey?.threadFbId (lines 505, 574)
IsGroupKey(threadKey) == ~Nullish(threadKey) /\ Truthy(Get(threadKey, "threadFbId"))

\* the message event of lines 494-531 and 569-594, from a truthy messageMetadata
MessageEventOf(metadata) ==
  LET threadKey == Get(metadata, "threadKey")
      threadId == extractThreadId(threadKey)
  IN IF ~Truthy(threadId) THEN Ret(None)
     ELSE Ret(Event("message", threadId, IsGroupKey(threadKey)))

\* parseDelta (lines 490-567)
parseDelta(delta) ==
  IF Nullish(delta) THEN Thrown
  ELSE IF Truthy(Get(delta, "messageMetadata"))
  THEN MessageEventOf(Get(delta, "messageMetadata"))
  ELSE IF Truthy(Get(delta, "reaction"))
  THEN LET threadId == extractThreadId(Get(delta, "threadKey"))
       IN IF ~Truthy(threadId) THEN Ret(None)
          ELSE Ret(Event("message_reaction", threadId, FALSE))
  ELSE Ret(None)

\* parseDirectDelta (lines 569-595), called with a truthy data.messageMetadata
parseDirectDelta(data) == MessageEventOf(Get(data, "messageMetadata"))

\* the for loop of lines 466-471 from index i: the first delta that parses, None
\* if none does, Thrown if parseDelta throws on the way
RECURSIVE FirstParsedDelta(_, _)
FirstParsedDelta(deltas, i) ==
  IF i > Len(deltas) THEN Ret(None)
  ELSE LET r == parseDelta(deltas[i])
       IN IF r.threw \/ r.event # None THEN r ELSE FirstParsedDelta(deltas, i + 1)

\* parseMessageSync (lines 460-485)
parseMessageSync(data) ==
  IF Nullish(data) THEN Thrown
  ELSE LET deltas == Get(data, "deltas")
           first == IF deltas.t = "array" THEN FirstParsedDelta(deltas.a, 1) ELSE Ret(None)
       IN IF first.threw \/ first.event # None THEN first
          ELSE IF Truthy(Get(data, "delta")) THEN parseDelta(Get(data, "delta"))
          ELSE IF Truthy(Get(data, "messageMetadata")) THEN parseDirectDelta(data)
          ELSE Ret(None)

\* parseRTCEvent (lines 640-659)
parseRTCEvent(data) ==
  IF Nullish(data) THEN Thrown
  ELSE IF Truthy(Get(data, "callState")) THEN Ret(Event("call", Get(data, "threadId"), FALSE))
  ELSE Ret(None)

\* parsePresence (lines 664-676)
parsePresence(data) ==
  IF Nullish(data) THEN Thrown ELSE Ret(Event("presence", JUndef, FALSE))

\* parseTypingNotification (lines 681-693)
parseTypingNotification(data) ==
  IF Nullish(data) THEN Thrown ELSE Ret(Event("typ", Get(data, "threadId"), FALSE))

\* parseGraphQLEvent (lines 698-833): the delta keys in the order they are tested,
\* each with the type of its event
GraphQLDeltas ==
  << <<"deltaThreadName", "thread_rename">>, <<"deltaThreadColor", "thread_color">>,
     <<"deltaThreadIcon", "thread_emoji">>, <<"deltaThreadImage", "thread_image">>,
     <<"deltaNickname", "thread_nickname">>,
     <<"deltaParticipantsAdded", "thread_add_participants">>,
     <<"deltaParticipantsRemoved", "thread_remove_participants">>,
     <<"deltaAdminAdded", "thread_promote">>, <<"deltaAdminRemoved", "thread_demote">>,
     <<"deltaLeftThread", "thread_leave">> >>

\* threadKey?.threadFbId || ''
GraphQLThreadId(threadKey) ==
  IF ~Nullish(threadKey) /\ Truthy(Get(threadKey, "threadFbId"))
  THEN Get(threadKey, "threadFbId") ELSE JStr("")

RECURSIVE GraphQLFrom(_, _)
GraphQLFrom(data, i) ==
  IF i > Len(GraphQLDeltas) THEN Ret(None)
  ELSE LET delta == Get(data, GraphQLDeltas[i][1])
       IN IF Truthy(delta)
          THEN Ret(Event(GraphQLDeltas[i][2], GraphQLThreadId(Get(delta, "threadKey")), FALSE))
          ELSE GraphQLFrom(data, i + 1)
parseGraphQLEvent(data) == IF Nullish(data) THEN Thrown ELSE GraphQLFrom(data, 1)

\* parseMessagingEvent (lines 838-868)
parseMessagingEvent(data) ==
  IF Nullish(data) THEN Thrown
  ELSE IF Truthy(Get(data, "readReceipt"))
  THEN Ret(Event("read_receipt", Get(Get(data, "readReceipt"), "threadId"), FALSE))
  ELSE IF Truthy(Get(data, "deliveryReceipt"))
  THEN Ret(Event("delivery_receipt", Get(Get(data, "deliveryReceipt"), "threadId"), FALSE))
  ELSE Ret(None)

\* parseC2BEvent (lines 873-876)
parseC2BEvent(data) == parseMessageSync(data)

\* the topics of the switch of lines 431-450
TopicMs == <<47, 116, 95, 109, 115>>   \* "/t_ms"
TopicRtc == <<47, 116, 95, 114, 116, 99>>   \* "/t_rtc"
TopicP == <<47, 116, 95, 112>>   \* "/t_p"
TopicTn == <<47, 116, 95, 116, 110>>   \* "/t_tn"
TopicGraphql == <<47, 116, 95, 103, 114, 97, 112, 104, 113, 108>>   \* "/t_graphql"
TopicMessagingEvents == <<47, 116, 95, 109, 101, 115, 115, 97, 103, 105, 110, 103, 95, 101, 118, 101, 110, 116, 115>>   \* "/t_messaging_events"
C2BPrefix == <<47, 109, 113, 116, 116, 95, 99, 50, 98, 95>>             \* "/mqtt_c2b_"
startsWith(x, prefix) == Len(x) >= Len(prefix) /\ SubSeq(x, 1, Len(prefix)) = prefix

\* the try/catch of parse (lines 428, 451-454): whatever is thrown becomes null
Caught_Rethrows(r) == r
Caught(r) == IF r.threw THEN Ret(None) ELSE r

\* parse (lines 427-455) of a topic and of the value JSON.parse makes of the payload
parse(topic, json) ==
  Caught(IF json = NotJson THEN Thrown
         ELSE IF topic = TopicMs THEN parseMessageSync(json)
         ELSE IF topic = TopicRtc THEN parseRTCEvent(json)
         ELSE IF topic = TopicP THEN parsePresence(json)
         ELSE IF topic = TopicTn THEN parseTypingNotification(json)
         ELSE IF topic = TopicGraphql THEN parseGraphQLEvent(json)
         ELSE IF topic = TopicMessagingEvents THEN parseMessagingEvent(json)
         ELSE IF startsWith(topic, C2BPrefix) THEN parseC2BEvent(json)
         ELSE Ret(None))

\* session.userId
UserId == <<49, 48, 48>>   \* "100"
\* the personal topic of subscribeToTopics (line 699): `mqtt_c2b_${userId}`
PersonalTopic == <<109, 113, 116, 116, 95, 99, 50, 98, 95>> \o UserId
\* "/t_sb", one of the additional topics of subscribeToTopics (line 702)
TopicSb == <<47, 116, 95, 115, 98>>   \* "/t_sb"
ParserTopics ==
  {TopicMs, TopicRtc, TopicP, TopicTn, TopicGraphql, TopicMessagingEvents,
   PersonalTopic, C2BPrefix \o UserId, TopicSb}

\* the values a threadKey field takes; JUndef is a field that is absent
ThreadFbIds == {JUndef, JNull, JStr(""), JStr("100")}
OtherUserFbIds == {JUndef, JStr(""), JStr("42")}
AnObject == [x |-> JNum(1)]
ThreadKey(threadFbId, otherUserFbId) ==
  JObj(IF threadFbId = JUndef /\ otherUserFbId = JUndef THEN AnObject
       ELSE IF threadFbId = JUndef THEN [otherUserFbId |-> otherUserFbId]
       ELSE IF otherUserFbId = JUndef THEN [threadFbId |-> threadFbId]
       ELSE [threadFbId |-> threadFbId, otherUserFbId |-> otherUserFbId])
ThreadKeys ==
  {ThreadKey(t, o) : t \in ThreadFbIds, o \in OtherUserFbIds} \cup {JNull, JStr("k")}

\* a message delta with the given threadKey (no threadKey at all for JUndef)
MessageDelta(threadKey) ==
  JObj([messageMetadata |-> JObj([threadKey |-> threadKey, messageId |-> JStr("m1")]),
        body |-> JStr("hi")])
MessageDeltas ==
  {MessageDelta(k) : k \in ThreadKeys} \cup
  {JObj([messageMetadata |-> JObj([messageId |-> JStr("m1")]), body |-> JStr("hi")])}
ReactionDeltas ==
  {JObj([reaction |-> JObj([reaction |-> JStr("x")]), threadKey |-> k]) :
     k \in {ThreadKey(JStr("100"), JUndef), ThreadKey(JUndef, JStr("42")), JNull}}

\* the payloads of the message-sync shapes: a deltas array, a single delta, the
\* direct structure
SyncPayloads ==
  {JObj([deltas |-> JArr(<<d>>)]) : d \in MessageDeltas \cup ReactionDeltas} \cup
  {JObj([delta |-> d]) : d \in MessageDeltas \cup ReactionDeltas} \cup
  MessageDeltas \cup
  {JObj([deltas |-> JArr(<<JObj(AnObject), d>>)]) :
     d \in {MessageDelta(ThreadKey(JStr("100"), JStr("42")))}} \cup
  {JObj([deltas |-> JArr(<<JNull, d>>)]) :
     d \in {MessageDelta(ThreadKey(JStr("100"), JUndef))}} \cup
  {JObj([deltas |-> JArr(<<>>), delta |-> JNum(5)])}

\* payloads for the other topics
OtherPayloads ==
  {JObj([callState |-> JStr("ringing"), threadId |-> JStr("100")]),
   JObj([userId |-> JStr("42"), status |-> JNum(2)]),
   JObj([threadId |-> JStr("100"), senderId |-> JStr("42"), typingStatus |-> JNum(1)]),
   JObj([deltaThreadName |-> JObj([threadKey |-> ThreadKey(JStr("100"), JUndef)])]),
   JObj([deltaThreadName |-> JObj([threadKey |-> ThreadKey(JUndef, JStr("42"))])]),
   JObj([deltaNickname |-> JStr("n")]),
   JObj([deltaLeftThread |-> JObj([threadKey |-> JNull])]),
   JObj([deltaAdminAdded |-> JNum(0),
         deltaAdminRemoved |-> JObj([threadKey |-> ThreadKey(JStr("100"), JUndef)])]),
   JObj([readReceipt |-> JObj([threadId |-> JStr("100")])]),
   JObj([deliveryReceipt |-> JObj([threadId |-> JStr("100")])])}

\* payloads that are no JSON, or JSON that is no object
ScalarPayloads ==
  {NotJson, JNull, JNum(0), JNum(5), JStr(""), JStr("x"), JArr(<<>>), JArr(<<JNull>>),
   JObj(AnObject)}

\* one graphql delta of the i-th kind with thread key k
GraphQLPayload(i, k) == JObj(GraphQLDeltas[i][1] :> JObj([threadKey |-> k]))
GraphQLThreadKeys ==
  {ThreadKey(JStr("100"), JUndef), ThreadKey(JStr("100"), JStr("42")),
   ThreadKey(JUndef, JStr("42")), ThreadKey(JUndef, JUndef)}
GraphQLPayloads ==
  {GraphQLPayload(i, k) : i \in DOMAIN GraphQLDeltas, k \in GraphQLThreadKeys}

ParserPayloads == SyncPayloads \cup OtherPayloads \cup ScalarPayloads \cup GraphQLPayloads

\* the payload texts that arrive in PUBLISH frames:
\* {"delta":{"messageMetadata":{"threadKey":{"threadFbId":"100"},"messageId":"m1"},"body":"hi"}}
MessageDeltaText ==
  <<123, 34, 100, 101, 108, 116, 97, 34, 58, 123, 34, 109, 101, 115, 115, 97, 103, 101,
    77, 101, 116, 97, 100, 97, 116, 97, 34, 58, 123, 34, 116, 104, 114, 101, 97, 100,
    75, 101, 121, 34, 58, 123, 34, 116, 104, 114, 101, 97, 100, 70, 98, 73, 100, 34,
    58, 34, 49, 48, 48, 34, 125, 44, 34, 109, 101, 115, 115, 97, 103, 101, 73, 100, 34,
    58, 34, 109, 49, 34, 125, 44, 34, 98, 111, 100, 121, 34, 58, 34, 104, 105, 34, 125,
    125>>
\* {"x":1}
ObjectText == <<123, 34, 120, 34, 58, 49, 125>>
\* a text followed by spaces up to n bytes: the same JSON value
PadTo(text, n) == text \o [i \in 1..(n - Len(text)) |-> 32]
Unpadded(payload) == SelectSeq(payload, LAMBDA c : c # 32)

\* JSON.parse(payload.toString()) (UserManager.ts line 429) of the texts above; of
\* any other payload that is delivered, which is empty: a SyntaxError
JSONParse(payload) ==
  IF Unpadded(payload) = MessageDeltaText
  THEN JObj([delta |-> MessageDelta(ThreadKey(JStr("100"), JUndef))])
  ELSE IF Unpadded(payload) = ObjectText THEN JObj(AnObject)
  ELSE NotJson

\* the PUBLISH frames the broker delivers, as buildPublishPacket frames them: with
\* a payload padded to LargePayload bytes the remaining length takes two bytes
InboundPublishes ==
  {[message |-> [topic |-> TopicMs, payload |-> PadTo(MessageDeltaText, LargePayload),
                 qos |-> 1, retain |-> FALSE], packetId |-> 7],
   [message |-> [topic |-> TopicMs, payload |-> PadTo(ObjectText, LargePayload),
                 qos |-> 0, retain |-> FALSE], packetId |-> 0],
   [message |-> [topic |-> TopicMs, payload |-> ObjectText, qos |-> 1, retain |-> FALSE],
    packetId |-> 7],
   [message |-> [topic |-> TopicMs, payload |-> ObjectText, qos |-> 0, retain |-> FALSE],
    packetId |-> 0]}

\* emit(channel, ...args)
EmitArgs(channel, args) == [Emit(channel, 0) EXCEPT !.q = args]

\* the bytes of each of them
FrameOf == [f \in InboundPublishes |-> buildPublishPacket(f.message, f.packetId)]

\* ---- handlePublish (lines 566-577), sendPubAck (673-676), parseAndEmitEvent
\* (1058-1072): a send that throws ends the handler, the catch of handleMessage
\* (lines 483-485) logs it ----
handlePublish(st, w, p) ==
  LET event == parse(p.topic, JSONParse(p.payload)).event
      acks == p.qos > 0 /\ p.packetId # 0
  IN IF acks /\ WsSend(st, w) = "throw"
     THEN <<Entry("throw", w, "PUBACK", 0, p.packetId, 0)>>
     ELSE (IF acks THEN <<Entry(WsSend(st, w), w, "PUBACK", 0, p.packetId, 0)>> ELSE <<>>)
          \o <<EmitArgs("message", <<p.topic, p.payload>>),
               EmitArgs("raw", <<p.topic, p.payload>>)>>
          \o (IF event # None
              THEN <<EmitArgs(event.type, <<event>>), EmitArgs("event", <<event>>)>>
              ELSE <<>>)

\* frames cut short of the fixed fields of their kind: a CONNACK without its return
\* code, a PUBACK and a SUBACK with half a packet id, a QoS1 PUBLISH (topic "a")
\* without its packet id, a QoS0 PUBLISH whose topic is shorter than its length field
TruncatedFrames ==
  {<<32, 2, 0>>, <<64, 2, 0>>, <<144, 3, 0>>, <<50, 5, 0, 1, 97>>, <<48, 4, 0, 2, 97>>}

\* the frame data arrives on transport s: handleMessage (lines 459-486)
FrameIn(s, data) ==
  /\ sock[s] \in {"open", "closing"}
  /\ LET p == parsePacket(data)
     IN IF p.threw \/ p.type \notin {"CONNACK", "PUBLISH", "PUBACK"}
        THEN /\ lastOp' = Op("frame", IF p.threw THEN "dropped" ELSE "logged", s)
             /\ trace' = <<>>
             /\ UNCHANGED progVars
        ELSE IF p.type = "CONNACK"
        THEN /\ handshake[s] = 1
             /\ handshake' = [handshake EXCEPT ![s] = 2]
             /\ HandleConnAck(s, p.returnCode)
             /\ UNCHANGED <<ws, sock, reconnectTimer, reconnectActive>>
        ELSE IF p.type = "PUBACK"
        THEN /\ HandlePubAck(p.packetId)
             /\ UNCHANGED <<connected, connecting, ws, sock, handshake, attempt,
                            reconnectAttempts, reconnectTimer, reconnectActive, keepAliveTimer,
                            keepAliveActive, lastPacketId, messageQueue>>
        ELSE /\ trace' = handlePublish(sock, ws, p)
             /\ lastOp' = Op("frame", "publish", s)
             /\ UNCHANGED progVars
  /\ UNCHANGED <<pubSeq, userSubs, closedByUser>>
  /\ Listeners

\* the 30 s timeout of a QoS1 publish fires (lines 656-659)
AckTimeout(t) ==
  /\ t \in ackTimers
  /\ ackTimers' = ackTimers \ {t}
  /\ pendingAcks' = MapDelete(pendingAcks, t.pid)
  /\ lastOp' = Op("ackTimeout", "rejected", t.pid)
  /\ trace' = <<Entry("ack", 0, "rejected", t.m, t.pid, 0)>>
  /\ UNCHANGED <<connected, connecting, ws, sock, handshake, attempt, reconnectAttempts,
                 reconnectTimer, reconnectActive, keepAliveTimer, keepAliveActive, lastPacketId,
                 messageQueue, pubSeq, userSubs, closedByUser>>
  /\ Listeners

\* one interval of startKeepAlive ticks (lines 735-739) -> sendPing (lines 680-685)
KeepAliveTick ==
  /\ keepAliveActive > 0
  /\ trace' = IF connected THEN <<Entry(WsSend(sock, ws), ws, "PINGREQ", 0, 0, 0)>>
              ELSE <<>>
  /\ lastOp' = Op("keepAliveTick", IF connected THEN "ping" ELSE "idle", 0)
  /\ UNCHANGED <<connected, connecting, ws, sock, handshake, attempt, reconnectAttempts,
                 reconnectTimer, reconnectActive, keepAliveTimer, keepAliveActive, lastPacketId,
                 pendingAcks, ackTimers, messageQueue, pubSeq, userSubs, closedByUser>>
  /\ Listeners

\* the caller invokes publish (lines 422-437)
Publish(qos) ==
  /\ pubSeq < MaxPublish
  /\ pubSeq' = pubSeq + 1
  /\ LET msg == [id |-> pubSeq + 1, qos |-> qos]
     IN IF PublishQueues(connected, ws)
        THEN /\ messageQueue' = Append(messageQueue, msg)
             /\ trace' = <<>>
             /\ lastOp' = Op("publish", "queued", msg.id)
             /\ UNCHANGED <<lastPacketId, pendingAcks, ackTimers>>
        ELSE LET r == sendPublish(sock, ws, lastPacketId, pendingAcks, ackTimers, msg)
             IN /\ lastPacketId' = r.last
                /\ pendingAcks' = r.acks
                /\ ackTimers' = r.timers
                /\ trace' = r.tr
                /\ lastOp' = Op("publish", IF r.thrown THEN "error" ELSE "sent", msg.id)
                /\ UNCHANGED messageQueue
  /\ UNCHANGED <<connected, connecting, ws, sock, handshake, attempt, reconnectAttempts,
                 reconnectTimer, reconnectActive, keepAliveTimer, keepAliveActive, userSubs, closedByUser>>
  /\ Listeners

\* the caller invokes subscribe (lines 407-417); topic 0 stands for the caller's topic
Subscribe ==
  /\ userSubs < MaxUserSubs
  /\ userSubs' = userSubs + 1
  /\ LET r == subscribe(sock, ws, connected, lastPacketId, 0)
     IN /\ lastPacketId' = r.last
        /\ trace' = r.tr
        /\ lastOp' = Op("subscribe", r.res, 0)
  /\ UNCHANGED <<connected, connecting, ws, sock, handshake, attempt, reconnectAttempts,
                 reconnectTimer, reconnectActive, keepAliveTimer, keepAliveActive, pendingAcks, ackTimers,
                 messageQueue, pubSeq, closedByUser>>
  /\ Listeners

\* the caller invokes disconnect (lines 385-402); stopReconnect (778-783),
\* stopKeepAlive (745-750), sendDisconnect (638-642)
ClientDisconnect ==
  /\ reconnectTimer' = FALSE
  /\ reconnectActive' = IF reconnectTimer THEN reconnectActive - 1 ELSE reconnectActive
  /\ keepAliveTimer' = FALSE
  /\ keepAliveActive' = IF keepAliveTimer THEN keepAliveActive - 1 ELSE keepAliveActive
  /\ IF WsSend(sock, ws) = "throw"
     THEN /\ UNCHANGED <<connected, connecting, ws, sock, closedByUser>>
          /\ trace' = <<Entry("throw", ws, "DISCONNECT", 0, 0, 0)>>
          /\ lastOp' = Op("disconnect", "error", 0)
     ELSE /\ sock' = IF ws # 0 /\ sock[ws] = "open"
                     THEN [sock EXCEPT ![ws] = "closing"] ELSE sock
          /\ ws' = 0
          /\ connected' = FALSE
          /\ connecting' = FALSE
          /\ closedByUser' = TRUE
          /\ trace' = (IF ws # 0 THEN <<Entry(WsSend(sock, ws), ws, "DISCONNECT", 0, 0, 0)>>
                       ELSE <<>>) \o <<Emit("disconnect", 0)>>
          /\ lastOp' = Op("disconnect", "ok", 0)
  /\ UNCHANGED <<handshake, attempt, reconnectAttempts, lastPacketId, pendingAcks,
                 ackTimers, messageQueue, pubSeq, userSubs>>

\* the caller invokes disconnect() on the client
Disconnect ==
  /\ ClientDisconnect
  /\ Listeners

\* the connection life cycle alone: the caller never publishes nor subscribes, so
\* the queue and the pending-ack map stay empty
NextConn ==
  \/ Connect(MaxSocks)
  \/ Disconnect
  \/ ReconnectFire(MaxSocks)
  \/ \E a \in Socks : ConnectTimeout(a)
  \/ \E s \in Socks : SockOpen(s)
  \/ \E s \in Socks : SockError(s)
  \/ \E s \in Socks : SockClose(s)
  \/ \E s \in Socks, rc \in ReturnCodes : ConnAckIn(s, rc)

SpecConn == Init /\ [][NextConn]_vars

\* the life cycle with the client's own timers firing once armed: a pending
\* reconnect timeout (line 765) and a pending connect timeout (line 321) are
\* setTimeout callbacks of the event loop, and the ws library follows an error
\* or a close() with the close event; nothing else forces a transport or the
\* broker to produce an event
SockDies(s) == sock[s] \in {"closing", "errored"} /\ SockClose(s)

SpecConnFair ==
  /\ SpecConn
  /\ WF_vars(ReconnectFire(MaxSocks))
  /\ WF_vars(\E a \in Socks : ConnectTimeout(a))
  /\ WF_vars(\E s \in Socks : SockDies(s))

\* scheduleReconnect alone, applied to every value of the counter up to
\* MaxDelayAttempts, with the timer pending or not
InitDelay ==
  /\ connected = FALSE
  /\ connecting = FALSE
  /\ ws = 0
  /\ sock = [s \in Socks |-> "none"]
  /\ handshake = [s \in Socks |-> 0]
  /\ attempt = {}
  /\ reconnectAttempts \in 0..MaxDelayAttempts
  /\ reconnectTimer \in BOOLEAN
  /\ reconnectActive = IF reconnectTimer THEN 1 ELSE 0
  /\ keepAliveTimer = FALSE
  /\ keepAliveActive = 0
  /\ lastPacketId = 0
  /\ pendingAcks = {}
  /\ ackTimers = {}
  /\ messageQueue = <<>>
  /\ pubSeq = 0
  /\ userSubs = 0
  /\ closedByUser = FALSE
  /\ lastOp = Op("init", "ok", 0)
  /\ trace = <<>>
  /\ facadeConnected = FALSE
  /\ mqttClient = 0
  /\ clientListeners = FALSE

ScheduleReconnect ==
  /\ lastOp.op = "init"
  /\ LET r == scheduleReconnect(reconnectTimer, reconnectAttempts)
     IN /\ reconnectTimer' = r.timer
        /\ reconnectActive' = reconnectActive + Armed(r.tr)
        /\ reconnectAttempts' = r.n
        /\ trace' = r.tr
        /\ lastOp' = Op("scheduleReconnect", IF reconnectTimer THEN "noop" ELSE "armed",
                        reconnectAttempts)
  /\ UNCHANGED <<connected, connecting, ws, sock, handshake, attempt, keepAliveTimer,
                 keepAliveActive, lastPacketId, pendingAcks, ackTimers, messageQueue,
                 pubSeq, userSubs, closedByUser>>
  /\ Listeners

SpecDelay == InitDelay /\ [][ScheduleReconnect]_vars

\* ---- the codec alone: encodeRemainingLength, buildPublishPacket and
\* parsePublishPacket applied to inputs drawn by the initial state; lastOp holds the
\* input, then the operation applied to it, and trace what the decoder returned ----
LengthInputs ==
  (0..MaxSmallLength) \cup {16383, 16384, 2097151, 2097152, 268435455}
\* the bytes that follow the remaining length in a frame
FrameTails == {<<>>, <<0, 5>>, <<200, 1, 0>>}

PayloadBytes(n) == [i \in 1..n |-> (i * 7) % 256]
PayloadLengths == {0, 1, 7, 118, 119, 200, MaxPayload}
PublishInputs ==
  [topic : {TopicMs, <<97>>}, payload : {PayloadBytes(n) : n \in PayloadLengths},
   qos : QosLevels, retain : {FALSE}]
CodecPacketIds == {7, 258}

InitCodec ==
  /\ connected = FALSE
  /\ connecting = FALSE
  /\ ws = 0
  /\ sock = [s \in Socks |-> "none"]
  /\ handshake = [s \in Socks |-> 0]
  /\ attempt = {}
  /\ reconnectAttempts = 0
  /\ reconnectTimer = FALSE
  /\ reconnectActive = 0
  /\ keepAliveTimer = FALSE
  /\ keepAliveActive = 0
  /\ lastPacketId = 0
  /\ pendingAcks = {}
  /\ ackTimers = {}
  /\ messageQueue = <<>>
  /\ pubSeq = 0
  /\ userSubs = 0
  /\ closedByUser = FALSE
  /\ \/ \E n \in LengthInputs, tail \in FrameTails :
          lastOp = OpQ("lengthInput", "input", n, tail)
     \/ \E m \in PublishInputs, id \in CodecPacketIds :
          lastOp = OpQ("publishInput", "input", id, <<m>>)
  /\ trace = <<>>
  /\ facadeConnected = FALSE
  /\ mqttClient = 0
  /\ clientListeners = FALSE

\* a frame whose remaining length is encodeRemainingLength(n), decoded by the loop of
\* parsePublishPacket
LengthRoundTrip ==
  /\ lastOp.op = "lengthInput"
  /\ LET enc == encodeRemainingLength(lastOp.arg)
         r == RemainingLengthLoop(<<48>> \o enc \o lastOp.q, LengthOffset, 1, 0)
     IN /\ lastOp' = OpQ("lengthRoundTrip", "done", lastOp.arg, enc)
        /\ trace' = <<Entry("decoded", 0, "length", r.value, r.offset, 0)>>
  /\ UNCHANGED <<progVars, pubSeq, userSubs, closedByUser>>
  /\ Listeners

\* buildPublishPacket(m, id), parsed by parsePacket
PublishRoundTrip ==
  /\ lastOp.op = "publishInput"
  /\ LET p == parsePacket(buildPublishPacket(lastOp.q[1], lastOp.arg))
     IN /\ lastOp' = OpQ("publishRoundTrip", IF p.threw THEN "threw" ELSE "parsed",
                         lastOp.arg, lastOp.q)
        /\ trace' = <<Entry("decoded", 0, "PUBLISH", 0, 0, p)>>
  /\ UNCHANGED <<progVars, pubSeq, userSubs, closedByUser>>
  /\ Listeners

NextCodec == LengthRoundTrip \/ PublishRoundTrip

SpecCodec == InitCodec /\ [][NextCodec]_vars

(***************************************************************************)
(* EventParser.parse applied to drawn topics and payloads                  *)
(***************************************************************************)
InitParser ==
  /\ connected = FALSE
  /\ connecting = FALSE
  /\ ws = 0
  /\ sock = [s \in Socks |-> "none"]
  /\ handshake = [s \in Socks |-> 0]
  /\ attempt = {}
  /\ reconnectAttempts = 0
  /\ reconnectTimer = FALSE
  /\ reconnectActive = 0
  /\ keepAliveTimer = FALSE
  /\ keepAliveActive = 0
  /\ lastPacketId = 0
  /\ pendingAcks = {}
  /\ ackTimers = {}
  /\ messageQueue = <<>>
  /\ pubSeq = 0
  /\ userSubs = 0
  /\ closedByUser = FALSE
  /\ \E topic \in ParserTopics, json \in ParserPayloads :
       lastOp = OpQ("parseInput", "input", 0, <<topic, json>>)
  /\ trace = <<>>
  /\ facadeConnected = FALSE
  /\ mqttClient = 0
  /\ clientListeners = FALSE

\* eventParser.parse(topic, payload) as parseAndEmitEvent calls it (line 1063)
ParseEvent ==
  /\ lastOp.op = "parseInput"
  /\ LET r == parse(lastOp.q[1], lastOp.q[2])
     IN /\ lastOp' = OpQ("parse", IF r.threw THEN "threw" ELSE "returned", 0, lastOp.q)
        /\ trace' = <<Entry("parsed", 0, r.event.type, 0, 0, r.event)>>
  /\ UNCHANGED <<progVars, pubSeq, userSubs, closedByUser>>
  /\ Listeners

NextParser == ParseEvent

SpecParser == InitParser /\ [][NextParser]_vars

\* the whole client
Next ==
  \/ Connect(MaxSocksFull)
  \/ Disconnect
  \/ Subscribe
  \/ \E qos \in QosLevels : Publish(qos)
  \/ ReconnectFire(MaxSocksFull)
  \/ KeepAliveTick
  \/ \E a \in Socks : ConnectTimeout(a)
  \/ \E s \in Socks : SockOpen(s)
  \/ \E s \in Socks : SockError(s)
  \/ \E s \in Socks : SockClose(s)
  \/ \E s \in Socks, rc \in ReturnCodes : ConnAckIn(s, rc)
  \/ \E s \in Socks, id \in AckableIds : PubAckIn(s, id)
  \/ \E t \in ackTimers : AckTimeout(t)
  \/ \E s \in Socks, data \in TruncatedFrames : FrameIn(s, data)

Spec == Init /\ [][Next]_vars

\* the client receiving PUBLISH frames: connecting, the handshake, closing, and the
\* frames the broker delivers on a transport
NextInbound ==
  \/ Connect(MaxSocksFull)
  \/ Disconnect
  \/ \E a \in Socks : ConnectTimeout(a)
  \/ \E s \in Socks : SockOpen(s)
  \/ \E s \in Socks : SockClose(s)
  \/ \E s \in Socks, rc \in ReturnCodes : ConnAckIn(s, rc)
  \/ \E s \in Socks, f \in InboundPublishes : FrameIn(s, FrameOf[f])

SpecInbound == Init /\ [][NextInbound]_vars

\* a client that has been connected for long: the packet-id counter is about to
\* wrap, and the publish named 0, which was given packet id 1 after an earlier
\* wrap, may still await its PUBACK
WrapStarts == {PacketIdModulus - 2, PacketIdModulus - 1}
OldPublish == [pid |-> 1, m |-> 0]

InitWrap ==
  /\ connected = TRUE
  /\ connecting = FALSE
  /\ ws = 1
  /\ sock = [s \in Socks |-> IF s = 1 THEN "open" ELSE "none"]
  /\ handshake = [s \in Socks |-> IF s = 1 THEN 2 ELSE 0]
  /\ attempt = {}
  /\ reconnectAttempts = 0
  /\ reconnectTimer = FALSE
  /\ reconnectActive = 0
  /\ keepAliveTimer = TRUE
  /\ keepAliveActive = 1
  /\ lastPacketId \in WrapStarts
  /\ pendingAcks \in {{}, {OldPublish}}
  /\ ackTimers = pendingAcks
  /\ messageQueue = <<>>
  /\ pubSeq = 0
  /\ userSubs = 0
  /\ closedByUser = FALSE
  /\ lastOp = Op("init", "ok", 0)
  /\ trace = <<>>
  /\ facadeConnected = FALSE
  /\ mqttClient = 0
  /\ clientListeners = FALSE

NextWrap ==
  \/ Subscribe
  \/ \E qos \in QosLevels : Publish(qos)
  \/ \E s \in Socks, id \in AckableIds : PubAckIn(s, id)
  \/ \E t \in ackTimers : AckTimeout(t)

SpecWrap == InitWrap /\ [][NextWrap]_vars

\* the same client, which may also lose its connection or be disconnected while
\* publishes await their PUBACK; every setTimeout of sendPublish (line 656) that is
\* not cleared fires
NextAck ==
  \/ NextWrap
  \/ Disconnect
  \/ \E s \in Socks : SockClose(s)

AckTimerUniverse ==
  [pid : {p % PacketIdModulus :
            p \in (PacketIdModulus - 2)..(PacketIdModulus + MaxPublish + MaxUserSubs)}
         \cup {OldPublish.pid},
   m : 0..MaxPublish]

SpecAckFair ==
  /\ InitWrap /\ [][NextAck]_vars
  /\ \A t \in AckTimerUniverse : WF_vars(AckTimeout(t))

(***************************************************************************)
(* PanindiganFCA, the facade, driving the client it constructs             *)
(***************************************************************************)
\* PanindiganFCA.connect, line 100
FacadeConnectIsNoop == facadeConnected \/ (mqttClient # 0 /\ connected)

\* PanindiganFCA.connect (PanindiganFCA.ts lines 99-134) of a logged-in caller, up to
\* the await inside MQTTClient.connect: new MQTTClient, the listeners, connect().
\* The variables describe one MQTTClient, the first the facade constructs.
FacadeConnect ==
  /\ FacadeConnectIsNoop \/ ~clientListeners
  /\ IF FacadeConnectIsNoop
     THEN /\ UNCHANGED <<connected, connecting, ws, sock, attempt, closedByUser>>
          /\ UNCHANGED <<facadeConnected, mqttClient, clientListeners>>
          /\ trace' = <<>>
          /\ lastOp' = Op("facadeConnect", "noop", 0)
     ELSE /\ ConnectBody
          /\ closedByUser' = FALSE
          /\ mqttClient' = 1
          /\ clientListeners' = TRUE
          /\ facadeConnected' = OnEmits(facadeConnected, trace')
          /\ lastOp' = Op("facadeConnect", "started", 0)
  /\ UNCHANGED <<handshake, reconnectAttempts, reconnectTimer, reconnectActive, keepAliveTimer,
                 keepAliveActive, lastPacketId, pendingAcks, ackTimers, messageQueue,
                 pubSeq, userSubs>>

\* PanindiganFCA.disconnect (PanindiganFCA.ts lines 139-145); a throw of the client's
\* disconnect() leaves lines 142-144 unexecuted
FacadeDisconnect ==
  IF mqttClient = 0
  THEN /\ facadeConnected' = FALSE
       /\ UNCHANGED <<mqttClient, clientListeners>>
       /\ UNCHANGED <<progVars, pubSeq, userSubs, closedByUser>>
       /\ trace' = <<>>
       /\ lastOp' = Op("facadeDisconnect", "ok", 0)
  ELSE /\ ClientDisconnect
       /\ IF lastOp'.res = "error"
          THEN UNCHANGED <<facadeConnected, mqttClient, clientListeners>>
          ELSE /\ mqttClient' = 0
               /\ facadeConnected' = FALSE
               /\ UNCHANGED clientListeners

\* PanindiganFCA.isConnected (PanindiganFCA.ts lines 158-160)
FacadeIsConnected == facadeConnected /\ mqttClient # 0 /\ connected

\* the caller holds the facade only; transports, broker and timers as in NextConn
NextFacade ==
  \/ FacadeConnect
  \/ FacadeDisconnect
  \/ ReconnectFire(MaxSocks)
  \/ \E a \in Socks : ConnectTimeout(a)
  \/ \E s \in Socks : SockOpen(s)
  \/ \E s \in Socks : SockError(s)
  \/ \E s \in Socks : SockClose(s)
  \/ \E s \in Socks, rc \in ReturnCodes : ConnAckIn(s, rc)

SpecFacade == Init /\ [][NextFacade]_vars

TypeOK ==
  /\ connected \in BOOLEAN /\ connecting \in BOOLEAN
  /\ ws \in 0..MaxSocks
  /\ reconnectAttempts \in Nat
  /\ attempt \subseteq Socks
  /\ keepAliveActive \in Nat
  /\ facadeConnected \in BOOLEAN /\ clientListeners \in BOOLEAN
  /\ mqttClient \in 0..1

(***************************************************************************)
(* Claims                                                                  *)
(***************************************************************************)

\* C1: once disconnect() has returned, no reconnect timer is pending and no
\* automatic connect attempt starts until the caller invokes connect() again.
C1_NoReconnectAfterDisconnect ==
  closedByUser => (~reconnectTimer /\ lastOp.op # "reconnectFire")

\* the PUBLISH frames a step delivered to a transport, as message ids in order
IsPublishSent(e) == e.k = "send" /\ e.what = "PUBLISH"
PublishesSent(tr) ==
  LET sel == SelectSeq(tr, IsPublishSent) IN [i \in 1..Len(sel) |-> sel[i].m]
MessageIds(q) == [i \in 1..Len(q) |-> q[i].id]

\* C2: the step that handles a successful CONNACK sends every message queued
\* before it exactly once, in queue order, and leaves the queue empty.
C2_FlushSendsQueueInOrder ==
  (lastOp.op = "connack" /\ lastOp.res \in {"ok", "error"})
    => (messageQueue = <<>> /\ PublishesSent(trace) = MessageIds(lastOp.q))

\* C3: at most one transport is opening or open at any time.
C3_OneActiveAttempt ==
  Cardinality({s \in Socks : sock[s] \in {"connecting", "open"}}) <= 1

\* C4: every connect() attempt is settled by an outcome of its own: its own
\* connect timeout or an event of its own transport.
C4_SettledByOwnOutcome ==
  \A i \in DOMAIN trace : trace[i].k = "settle" => trace[i].m = trace[i].sock

\* C5: connect() called while connected or connecting changes nothing: no
\* transport, no frame, no timer, same flags, counter, queue and pending acks.
C5_ConnectWhileActiveIsNoop ==
  [][(lastOp'.op = "connect" /\ (connected \/ connecting))
       => (UNCHANGED progVars /\ trace' = <<>>)]_vars

C5_Witness ==
  /\ lastOp.op = "connect" /\ lastOp.res = "noop"
  /\ connecting /\ ~connected
  /\ messageQueue # <<>>

\* C6: publish() while connected hands exactly one PUBLISH frame to the transport
\* and queues nothing; publish() while not connected appends the message to the
\* tail of the queue and sends nothing.
C6_PublishSendsOrQueues ==
  lastOp.op = "publish" =>
    IF connected
    THEN /\ lastOp.res = "sent"
         /\ Len(trace) = 1
         /\ trace[1].what = "PUBLISH" /\ trace[1].k \in {"send", "drop"}
    ELSE /\ lastOp.res = "queued"
         /\ trace = <<>>
         /\ messageQueue # <<>>
         /\ messageQueue[Len(messageQueue)].id = lastOp.arg

\* C7: subscribe() while not connected fails and changes no state: no frame is
\* sent and the packet-id counter does not advance.
C7_SubscribeWhileNotConnectedFails ==
  [][(lastOp'.op = "subscribe" /\ ~connected)
       => (lastOp'.res = "error" /\ UNCHANGED progVars /\ trace' = <<>>)]_vars

C7_Witness ==
  /\ lastOp.op = "subscribe" /\ lastOp.res = "error"
  /\ ~connected /\ ws # 0 /\ sock[ws] = "open"

\* C8: from a state in which the reconnect counter has reached the maximum, no
\* step schedules a reconnect timer.
C8_NoScheduleWhenExhausted ==
  [][(reconnectAttempts >= maxReconnectAttempts /\ ~reconnectTimer)
       => ~reconnectTimer']_vars

C8_Witness ==
  /\ lastOp.op = "close"
  /\ reconnectAttempts = maxReconnectAttempts
  /\ ~reconnectTimer
  /\ ~closedByUser

\* C9: after a manual connect() has started an attempt with no automatic retry
\* pending, the reconnect budget is available again (the counter is below the
\* maximum), so a failure of the attempt schedules a reconnect.
C9_ManualConnectRestoresBudget ==
  (lastOp.op = "connect" /\ lastOp.res = "started" /\ ~reconnectTimer)
    => reconnectAttempts < maxReconnectAttempts

\* C10: a transport close with the counter below the maximum and no disconnect()
\* by the caller leaves a reconnect timer pending, and the firing of the timer
\* leaves the client connected or connecting.
C10_CloseSchedulesReconnect ==
  /\ [][(lastOp'.op = "close" /\ ~closedByUser
         /\ reconnectAttempts < maxReconnectAttempts) => reconnectTimer']_vars
  /\ [][lastOp'.op = "reconnectFire"
         => (reconnectTimer /\ ~reconnectTimer' /\ (connected' \/ connecting'))]_vars

C10_Witness ==
  /\ lastOp.op = "reconnectFire" /\ lastOp.res = "started"
  /\ ~closedByUser
  /\ reconnectAttempts = maxReconnectAttempts

\* C11: after a connect attempt has failed by its connect timeout, with no
\* disconnect() by the caller and the counter below the maximum, a reconnect timer
\* is eventually pending (or the caller has disconnected, or a connection is
\* established or under way again).
C11_TimeoutDrivesReconnect ==
  (lastOp.op = "connectTimeout" /\ ~closedByUser
     /\ reconnectAttempts < maxReconnectAttempts)
    ~> (reconnectTimer \/ closedByUser \/ connected \/ connecting)

IsErrorEmit(e) == e.k = "emit" /\ e.what = "error"

\* C13: the handling of a CONNACK with return code 1..5 does not make the client
\* connected, leaves connecting false and emits exactly one 'error', whose message
\* is the one of that code and differs from the message of every other code.
C13_RefusalSurfacesOneError ==
  [][(lastOp'.op = "connack" /\ lastOp'.res = "refused" /\ trace'[1].m \in 1..5)
       => /\ connected' = connected
          /\ ~connecting'
          /\ Len(SelectSeq(trace', IsErrorEmit)) = 1
          /\ IsErrorEmit(trace'[1])
          /\ \A c \in 1..5 : (trace'[1].txt = RefusalReason(c)) <=> (c = trace'[1].m)]_vars

C13_Witness ==
  /\ lastOp.op = "connack" /\ lastOp.res = "refused"
  /\ trace[1].m = 5
  /\ trace[1].txt = "Connection Refused - Not authorized (bad cookies)"
  /\ Len(trace) = 2 /\ trace[2].k = "settle"
  /\ ~connected /\ ~connecting

\* C14: the event that follows a CONNACK refusal with code 4 or 5 arms no
\* reconnect timer and starts no automatic attempt, unless it is a connect() call
\* of the caller.
C14_NoRetryAfterAuthRefusal ==
  [][(lastOp.op = "connack" /\ lastOp.res = "refused" /\ trace[1].m \in {4, 5}
      /\ lastOp'.op # "connect")
       => ((reconnectTimer' => reconnectTimer) /\ lastOp'.res # "started")]_vars

\* C15: the handling of a frame that is shorter than the fixed fields of its kind
\* changes neither connected nor connecting, nor the queue, the pending-ack map or
\* any timer, and emits neither 'connect' nor 'error'.
C15_TruncatedFrameIsDropped ==
  [][(\E s \in Socks, data \in TruncatedFrames : FrameIn(s, data))
       => /\ UNCHANGED <<connected, connecting, messageQueue, pendingAcks, ackTimers,
                         attempt, reconnectTimer, keepAliveTimer, keepAliveActive>>
          /\ \A i \in DOMAIN trace' :
               ~(trace'[i].k = "emit" /\ trace'[i].what \in {"connect", "error"})]_vars

\* C16: the packet ids of the QoS1 publishes in flight (sent, neither acknowledged
\* nor timed out) are pairwise distinct, also after the counter has wrapped.
C16_PacketIdsUnique ==
  \A t1, t2 \in ackTimers : t1.pid = t2.pid => t1 = t2

IsQos1PublishSent(e) == e.k = "send" /\ e.what = "PUBLISH" /\ e.q = 1

\* C17: every QoS1 PUBLISH frame a step hands to the transport carries a packet id,
\* and the pending-ack map holds that publish under that id when the step ends.
C17_Qos1PublishIsTracked ==
  \A i \in DOMAIN trace :
    IsQos1PublishSent(trace[i])
      => (trace[i].pid # 0 /\ [pid |-> trace[i].pid, m |-> trace[i].m] \in pendingAcks)

\* C18: a publish is completed by the first of its PUBACK and its timeout, which
\* removes its own entry and timer and nothing else; a PUBACK or a timeout that
\* comes later changes neither the pending-ack map nor another publish's timer.
C18_AckCompletedOnce ==
  [][/\ lastOp'.op = "ackTimeout" =>
          \E t \in ackTimers :
            /\ trace' = <<Entry("ack", 0, "rejected", t.m, t.pid, 0)>>
            /\ ackTimers' = ackTimers \ {t}
            /\ pendingAcks' = pendingAcks \ {t}
     /\ (lastOp'.op = "puback" /\ lastOp'.res = "ok") =>
          \E t \in ackTimers \cap pendingAcks :
            /\ t.pid = lastOp'.arg
            /\ trace' = <<Entry("ack", 0, "resolved", t.m, t.pid, 0)>>
            /\ ackTimers' = ackTimers \ {t}
            /\ pendingAcks' = pendingAcks \ {t}
     /\ (lastOp'.op = "puback" /\ lastOp'.res = "none") =>
          (trace' = <<>> /\ UNCHANGED <<pendingAcks, ackTimers>>)]_vars

\* C19: when disconnect() returns, the pending-ack map is empty.
C19_DisconnectEmptiesPendingAcks ==
  (lastOp.op = "disconnect" /\ lastOp.res = "ok") => pendingAcks = {}

\* C20: when disconnect() returns, no keep-alive interval and no reconnect timer
\* is active.
C20_DisconnectStopsTimers ==
  (lastOp.op = "disconnect" /\ lastOp.res = "ok")
    => (keepAliveActive = 0 /\ ~keepAliveTimer /\ ~reconnectTimer)

IsPingReq(e) == e.what = "PINGREQ"

\* C21: a keep-alive tick hands exactly one PINGREQ to the transport when the
\* client is connected and nothing when it is not; no other step sends a PINGREQ.
C21_PingIffConnected ==
  IF lastOp.op = "keepAliveTick"
  THEN IF connected
       THEN /\ Len(trace) = 1
            /\ IsPingReq(trace[1]) /\ trace[1].k \in {"send", "drop"}
       ELSE trace = <<>>
  ELSE SelectSeq(trace, IsPingReq) = <<>>

\* C23: for a remaining length n, the bytes of encodeRemainingLength(n) are 1 to 4,
\* all but the last with the continuation bit; decoding them where they stand in a
\* frame (from byte 1) returns n and ends right after them.
C23_RemainingLengthRoundTrip ==
  lastOp.op = "lengthRoundTrip" =>
    LET enc == lastOp.q
    IN /\ Len(enc) \in 1..4
       /\ \A i \in 1..Len(enc) : (enc[i] >= 128) <=> (i < Len(enc))
       /\ trace[1].m = lastOp.arg
       /\ trace[1].pid = 1 + Len(enc)

\* C24: parsing the frame buildPublishPacket made of a message and a packet id
\* returns the message's topic, qos and payload, and the packet id when qos > 0.
C24_PublishRoundTrip ==
  lastOp.op = "publishRoundTrip" =>
    LET m == lastOp.q[1]
        p == trace[1].q
    IN /\ lastOp.res = "parsed"
       /\ p.topic = m.topic /\ p.qos = m.qos /\ p.payload = m.payload
       /\ m.qos > 0 => p.packetId = lastOp.arg

\* the topics parse dispatches on: the six of the switch and the personal prefix
InDispatchTable(topic) ==
  \/ topic \in {TopicMs, TopicRtc, TopicP, TopicTn, TopicGraphql, TopicMessagingEvents}
  \/ startsWith(topic, C2BPrefix)

\* C25: EventParser.parse never throws: for every topic and every payload (also
\* bytes that are no JSON and JSON values that are no objects) it returns one
\* event or none, and for every topic outside the dispatch table it returns none.
C25_ParseNeverThrows ==
  lastOp.op = "parse" =>
    /\ lastOp.res = "returned"
    /\ ~InDispatchTable(lastOp.q[1]) => trace[1].q = None

\* the message-sync topic with JSON null as payload: parseMessageSync throws on
\* the property read and parse returns none
C25_Witness ==
  /\ lastOp.op = "parse" /\ lastOp.q = <<TopicMs, JNull>>
  /\ lastOp.res = "returned" /\ trace[1].q = None

\* a thread key has a field when the field holds a value the code's tests take as
\* present: not null, not the empty string
HasField(threadKey, field) == Truthy(Get(threadKey, field))
\* the payloads that carry one message delta with thread key k
MessageSyncShapes(k) ==
  {MessageDelta(k), JObj([delta |-> MessageDelta(k)]),
   JObj([deltas |-> JArr(<<MessageDelta(k)>>)])}

\* C26: for every message delta on the message-sync topic: a thread key with a
\* thread-id field gives isGroup = true and threadId = that value, also when an
\* other-user-id field is present; else one with an other-user-id field gives
\* isGroup = false and threadId = that value; else no event is produced.
C26_ThreadIdRule ==
  (lastOp.op = "parse" /\ lastOp.q[1] = TopicMs) =>
    \A k \in ThreadKeys :
      lastOp.q[2] \in MessageSyncShapes(k) =>
        trace[1].q =
          IF HasField(k, "threadFbId") THEN Event("message", Get(k, "threadFbId"), TRUE)
          ELSE IF HasField(k, "otherUserFbId")
          THEN Event("message", Get(k, "otherUserFbId"), FALSE)
          ELSE None

\* a delta whose thread key has both fields was parsed as a group message
C26_Witness ==
  /\ lastOp.op = "parse"
  /\ lastOp.q = <<TopicMs, JObj([delta |-> MessageDelta(ThreadKey(JStr("100"), JStr("42")))])>>
  /\ trace[1].q = Event("message", JStr("100"), TRUE)

\* C27: a PUBLISH on the personal topic the client subscribes to after CONNACK is
\* routed like the message-sync topic: for every payload p,
\* parse(personalTopic, p) = parse(message-sync topic, p).
C27_PersonalTopicRoutedAsMessageSync ==
  (lastOp.op = "parse" /\ lastOp.q[1] = PersonalTopic) =>
    trace[1].q = parse(TopicMs, lastOp.q[2]).event

\* an inbound PUBLISH frame arrives on an open transport
InboundPublishIn(f) ==
  \E s \in Socks : FrameIn(s, FrameOf[f])
IsPubAck(e) == e.what = "PUBACK"
IsEmit(e) == e.k = "emit"

\* C22: for every inbound PUBLISH frame with QoS > 0 exactly one PUBACK with the
\* frame's packet id is sent, before any event for the frame is emitted; for a
\* QoS 0 frame no PUBACK is sent.
C22_PubAckBeforeEvents ==
  [][\A f \in InboundPublishes :
       InboundPublishIn(f) =>
         IF f.message.qos > 0
         THEN /\ Len(SelectSeq(trace', IsPubAck)) = 1
              /\ trace'[1].what = "PUBACK" /\ trace'[1].k \in {"send", "drop"}
              /\ trace'[1].pid = f.packetId
         ELSE SelectSeq(trace', IsPubAck) = <<>>]_vars

IsMessageEmit(e) == e.k = "emit" /\ e.what = "message"

\* C30: for each inbound PUBLISH frame the `message` channel is emitted exactly
\* once, with the topic and the raw payload of the frame; every emission on
\* `message` has that shape, and the decoded event, if any, is emitted after it.
C30_MessageEmittedOnceRaw ==
  [][\A f \in InboundPublishes :
       InboundPublishIn(f) =>
         LET onMessage == SelectSeq(trace', IsMessageEmit)
         IN /\ Len(onMessage) = 1
            /\ onMessage[1].q = <<f.message.topic, f.message.payload>>
            /\ \A i \in DOMAIN trace' :
                 (IsEmit(trace'[i]) /\ trace'[i].what \notin {"message", "raw"})
                   => \E j \in 1..(i - 1) : IsMessageEmit(trace'[j])]_vars

\* a step that handled a CONNACK with return code 0
IsConnAckSuccess == lastOp.op = "connack" /\ lastOp.res \in {"ok", "error"}
Delivered(e) == e.k \in {"send", "drop"}
IsSubscribe(e) == e.what = "SUBSCRIBE"

\* C28: the step handling a CONNACK with return code 0 leaves the client connected
\* with the reconnect counter at 0, and does in this order: start the keep-alive
\* timer, send one SUBSCRIBE per topic of the 12, send the queued messages, emit
\* `connect`; so every SUBSCRIBE precedes every flushed PUBLISH and the queue is
\* empty when `connect` is emitted.
C28_ConnAckOrder ==
  IsConnAckSuccess =>
    LET n == Len(lastOp.q)
    IN /\ connected /\ reconnectAttempts = 0
       /\ Len(trace) >= NumTopics + n + 2
       /\ trace[1] = Entry("timer", 0, "keepAlive", 0, 0, 0)
       /\ \A t \in 1..NumTopics :
            /\ IsSubscribe(trace[1 + t]) /\ trace[1 + t].m = t
            /\ Delivered(trace[1 + t])
       /\ \A i \in 1..n :
            /\ trace[1 + NumTopics + i].what = "PUBLISH"
            /\ trace[1 + NumTopics + i].m = lastOp.q[i].id
            /\ Delivered(trace[1 + NumTopics + i])
       /\ trace[NumTopics + n + 2] = Emit("connect", 0)
       /\ messageQueue = <<>>

IsFailedSubscribe(e) == IsSubscribe(e) /\ e.k = "throw"
IsPublishAttempt(e) == e.what = "PUBLISH"
AttemptedPublishes(tr) ==
  LET sel == SelectSeq(tr, IsPublishAttempt) IN [i \in 1..Len(sel) |-> sel[i].m]

\* C29: when the SUBSCRIBE of one topic fails during the handling of a successful
\* CONNACK, the SUBSCRIBEs of all the other topics are still attempted, the queue
\* is still flushed and `connect` is still emitted.
C29_FailedSubscribeDoesNotAbort ==
  (IsConnAckSuccess /\ \E i \in DOMAIN trace : IsFailedSubscribe(trace[i])) =>
    /\ \A t \in 1..NumTopics : \E i \in DOMAIN trace : IsSubscribe(trace[i]) /\ trace[i].m = t
    /\ messageQueue = <<>>
    /\ AttemptedPublishes(trace) = MessageIds(lastOp.q)
    /\ \E i \in DOMAIN trace : trace[i] = Emit("connect", 0)

\* C31: the thread-id rule holds for every kind of graphql delta: the event's
\* threadId is the thread key's thread-id field if it has one, else its
\* other-user-id field if it has one, and with neither no event is produced.
C31_GraphQLThreadIdRule ==
  (lastOp.op = "parse" /\ lastOp.q[1] = TopicGraphql) =>
    \A i \in DOMAIN GraphQLDeltas, k \in GraphQLThreadKeys :
      lastOp.q[2] = GraphQLPayload(i, k) =>
        IF HasField(k, "threadFbId")
        THEN /\ trace[1].q.type = GraphQLDeltas[i][2]
             /\ trace[1].q.threadId = Get(k, "threadFbId")
        ELSE IF HasField(k, "otherUserFbId")
        THEN /\ trace[1].q.type = GraphQLDeltas[i][2]
             /\ trace[1].q.threadId = Get(k, "otherUserFbId")
        ELSE trace[1].q = None

\* C32: the client is never both connected and connecting.
C32_NotConnectedAndConnecting == ~(connected /\ connecting)

\* a CONNACK on an older transport connected the client while its newer attempt was
\* connecting
C32_Witness ==
  /\ lastOp.op = "connack" /\ lastOp.res = "ok"
  /\ connected /\ ~connecting
  /\ ws # 0 /\ ws # lastOp.arg /\ sock[ws] = "connecting"

AttemptsWithinBudget ==
  reconnectAttempts >= 0 /\ reconnectAttempts <= maxReconnectAttempts
\* a step arms the reconnect timer
SchedulesReconnect == ~reconnectTimer /\ reconnectTimer'
AttemptsStepRule ==
  /\ (reconnectAttempts' > reconnectAttempts)
       => (reconnectAttempts' = reconnectAttempts + 1 /\ SchedulesReconnect)
  /\ SchedulesReconnect => reconnectAttempts' = reconnectAttempts + 1
  /\ (reconnectAttempts' < reconnectAttempts)
       => (reconnectAttempts' = 0 /\ lastOp'.op = "connack"
           /\ lastOp'.res \in {"ok", "error"})

\* C33: 0 <= reconnectAttempts <= maxReconnectAttempts in every state; the counter
\* grows by exactly 1 in each step that schedules a reconnect and in no other, and
\* returns to 0 only in a step that handles a CONNACK with return code 0.
C33_AttemptsCounter == []AttemptsWithinBudget /\ [][AttemptsStepRule]_vars

\* a close has armed the timer of the last reconnect of the budget
C33_Witness ==
  /\ lastOp.op = "close" /\ reconnectTimer
  /\ reconnectAttempts = maxReconnectAttempts
  /\ \E i \in DOMAIN trace : trace[i].k = "timer" /\ trace[i].what = "reconnect"

OneReconnectTimer == reconnectActive <= 1
CloseWhilePendingArmsNone ==
  (lastOp'.op = "close" /\ reconnectActive > 0)
    => (reconnectActive' = reconnectActive /\ reconnectAttempts' = reconnectAttempts)

\* C34: at most one reconnect timer is pending at any time; a transport close that
\* arrives while one is pending neither starts a second timer nor increments the
\* attempt counter.
C34_OneReconnectTimer == []OneReconnectTimer /\ [][CloseWhilePendingArmsNone]_vars

\* a second transport has closed while the reconnect timer of the first close was
\* pending
C34_Witness ==
  /\ lastOp.op = "close" /\ reconnectActive = 1 /\ reconnectAttempts = 1
  /\ Armed(trace) = 0

\* C35: at most one keep-alive interval timer is active at any time, whatever
\* closes and reconnects have happened, so at most one PINGREQ goes out per
\* keep-alive period.
C35_OneKeepAliveTimer == keepAliveActive <= 1

\* C36: connected implies that the client holds a transport (ws is not null), in
\* every state, also when a closing transport delivers frames after disconnect().
C36_ConnectedHoldsTransport == connected => ws # 0

\* C37: the close event of a transport that a newer transport has superseded
\* changes nothing: connected and connecting stay as they are and no reconnect is
\* scheduled.
C37_SupersededCloseChangesNothing ==
  [][(lastOp'.op = "close" /\ ws # 0 /\ lastOp'.arg # ws)
       => UNCHANGED <<connected, connecting, reconnectTimer, reconnectActive,
                      reconnectAttempts>>]_vars

\* the publish m has an entry in the pending-ack map; its promise is unsettled (its
\* timeout is pending)
HasPendingAck(m) == \E x \in pendingAcks : x.m = m
Unsettled(m) == \E t \in ackTimers : t.m = m

\* C38: every entry of the pending-ack map is eventually removed, and no QoS1
\* publish stays pending forever, also when the connection is lost or disconnect()
\* is called meanwhile: without a PUBACK the timeout of the publish fires.
C38_PendingAcksAreRemoved ==
  \A m \in 0..MaxPublish :
    /\ HasPendingAck(m) ~> ~HasPendingAck(m)
    /\ Unsettled(m) ~> ~Unsettled(m)

\* disconnect() has returned while a publish awaits its PUBACK
C38_Witness ==
  /\ lastOp.op = "disconnect" /\ lastOp.res = "ok"
  /\ pendingAcks # {} /\ pendingAcks \subseteq ackTimers

\* C39: once the connect() attempt on the transport the client holds has failed by
\* timeout or refusal and connect() has not been called again, a CONNACK with
\* return code 0 arriving on that transport does not connect the client: no
\* subscriptions, no queue flush, no `connect` event.
C39_LateConnAckIgnored ==
  [][(/\ lastOp'.op = "connack" /\ lastOp'.res \in {"ok", "error"}
      /\ ws # 0 /\ lastOp'.arg = ws /\ ws \notin attempt
      /\ ~connecting /\ ~connected)
       => (~connected' /\ trace' = <<>>)]_vars

\* C40: the facade's connected flag is true only while the facade holds a client
\* whose isConnected() is true; after PanindiganFCA.disconnect() the flag stays
\* false and no `connect` reaches the facade's listener until
\* PanindiganFCA.connect() is called, and that call starts a connection attempt.
FacadeFlagHasLiveClient == facadeConnected => (mqttClient # 0 /\ connected)
FacadeDropped == clientListeners /\ mqttClient = 0
FacadeQuietOnceDropped ==
  FacadeDropped =>
    /\ lastOp'.op # "facadeConnect" =>
         (~facadeConnected' /\ SelectSeq(trace', IsFlagEmit) \in {<<>>, <<Emit("disconnect", 0)>>})
    /\ lastOp'.op = "facadeConnect" => lastOp'.res = "started"
C40_FacadeFlag == []FacadeFlagHasLiveClient /\ [][FacadeQuietOnceDropped]_vars

====
